---- MODULE Spec2Model ----
(***************************************************************************)
(* A model of the three scaffolding scripts:                               *)
(*   module1_download_assets.py   download, extract, classify/copy, record *)
(*   module2_jekyll_structure.py  site skeleton, optional call of module 1 *)
(*   module3_sample_pages.py      sample pages, asset-mode detection       *)
(* The scripts are sequential; a run is a walk of one program counter.     *)
(* The file system (output directory, manifest, site directory, temporary  *)
(* directory) is the state that survives from one run to the next.         *)
(***************************************************************************)
EXTENDS Integers, Sequences, FiniteSets, TLC

(***************************************************************************)
(* Bounds of the model.                                                    *)
(***************************************************************************)
\* files in an extracted tree when copy_assets is exercised on its own
MaxFiles == 2
\* calls of copy_assets on the same tree and output directory
MaxCalls == 2
\* files in the release archive of the whole-run specification
MainFiles == 2
\* script invocations from the shell in one behaviour
MaxRuns == 2
\* failed requests and I/O errors in one behaviour
MaxFaults == 1

(***************************************************************************)
(* Program constants.                                                      *)
(***************************************************************************)
DEFAULT_VERSION == "v5.10.2"
VERSION_FILE == "govuk_frontend_version.json"
ZIP_NAME == "govuk-frontend.zip"

\* Versions a caller may pass with --version, and tags the release listing
\* may report.
OtherVersion == "v5.11.0"
Versions == {DEFAULT_VERSION, OtherVersion}

(***************************************************************************)
(* File names and the extracted tree.                                      *)
(***************************************************************************)
FileNameOrder ==
    << "a.min.css", "b.min.js", "readme.md", "a.js", "c.woff2", "c.woff",
       "d.png", "e.svg", "f.ico", "a.min.css.map" >>

FileNames == { FileNameOrder[i] : i \in 1..Len(FileNameOrder) }

\* Directories of the extracted tree in the order os.walk visits them
\* (top-down: the root, then its subdirectory).
WalkDirs == << "", "dist" >>

DirIndex(d) == CHOOSE i \in 1..Len(WalkDirs) : WalkDirs[i] = d

TreeFiles(names) == [dir : {WalkDirs[i] : i \in 1..Len(WalkDirs)}, name : names]

\* The files of a tree in traversal order: every path occurs once, and the
\* files of one directory are visited together, directories in walk order.
IsWalk(s) ==
    /\ \A i, j \in 1..Len(s) : i < j => s[i] # s[j]
    /\ \A i, j \in 1..Len(s) : i < j => DirIndex(s[i].dir) <= DirIndex(s[j].dir)

Trees(names, n) ==
    { s \in UNION { [1..k -> TreeFiles(names)] : k \in 0..n } : IsWalk(s) }

\* The content of a file of release `version` at path dir/name.
Data(version, f) == << version, f.dir, f.name >>

(***************************************************************************)
(* copy_assets                                                             *)
(***************************************************************************)
CATEGORIES == << "css", "js", "fonts", "images" >>

CategorySet == { CATEGORIES[i] : i \in 1..Len(CATEGORIES) }

\* str.endswith(suffix)
EndsWith(file, suffix) ==
    /\ Len(file) >= Len(suffix)
    /\ SubSeq(file, Len(file) - Len(suffix) + 1, Len(file)) = suffix

\* A mutant of Suffixes: the script loop accepts every .js file.
SuffixesAnyJs(c) ==
    CASE c = "css"    -> { ".min.css" }
      [] c = "js"     -> { ".js" }
      [] c = "fonts"  -> { ".woff", ".woff2" }
      [] c = "images" -> { ".png", ".svg", ".ico" }

\* The suffixes each of the four loops tests with file.endswith(...).
Suffixes(c) ==
    CASE c = "css"    -> { ".min.css" }
      [] c = "js"     -> { ".min.js" }
      [] c = "fonts"  -> { ".woff", ".woff2" }
      [] c = "images" -> { ".png", ".svg", ".ico" }

Matches(file, c) == \E suffix \in Suffixes(c) : EndsWith(file, suffix)

\* os.path.join(<category dir>, file)
DestPath(c, file) == << c, file >>

EmptyDir == [ n \in {} |-> << >> ]

\* An output directory that does not exist yet.
NoDir == [ exists |-> FALSE, files |-> EmptyDir ]

FreshOut == [ c \in CategorySet |-> NoDir ]

\* os.makedirs(dir, exist_ok=True)
makedirs(d) == [ d EXCEPT !.exists = TRUE ]

\* A mutant of copy2: an existing destination is kept (first copy wins).
copy2KeepExisting(d, file, data) ==
    IF file \in DOMAIN d.files THEN d
    ELSE [ d EXCEPT !.files = (file :> data) @@ d.files ]

\* A mutant of copy2: a taken destination name gets a ~ appended.
copy2Uniquify(d, file, data) ==
    IF file \in DOMAIN d.files
    THEN [ d EXCEPT !.files = ((file \o "~") :> data) @@ d.files ]
    ELSE [ d EXCEPT !.files = (file :> data) @@ d.files ]

\* shutil.copy2(src_path, dest_path): the destination holds the source's
\* content afterwards, whether or not it existed.
copy2(d, file, data) == [ d EXCEPT !.files = (file :> data) @@ d.files ]

\* for file in files: the loop of category c comes to file f.
Visit(st, c, f) == [ st EXCEPT !.visits = Append(st.visits, << c, f >>) ]

\* A mutant of CopyFile: a destination already in the list is not appended
\* again.
CopyFileOncePerName(st, c, f, version, fault) ==
    IF st.raised THEN st
    ELSE IF ~Matches(f.name, c) THEN Visit(st, c, f)
    ELSE IF st.ncopy + 1 = fault THEN [ Visit(st, c, f) EXCEPT !.raised = TRUE ]
    ELSE [ Visit(st, c, f) EXCEPT
                     !.out[c] = copy2(st.out[c], f.name, Data(version, f)),
                     !.lists[c] = IF \E i \in 1..Len(st.lists[c]) :
                                        st.lists[c][i] = DestPath(c, f.name)
                                  THEN st.lists[c]
                                  ELSE Append(st.lists[c], DestPath(c, f.name)),
                     !.ncopy = st.ncopy + 1 ]

\* One iteration of an inner loop: the suffix test, the copy and the append.
\* st.ncopy counts the copy2 calls made; call number `fault` raises (0: none).
CopyFile(st, c, f, version, fault) ==
    IF st.raised THEN st
    ELSE IF ~Matches(f.name, c) THEN Visit(st, c, f)
    ELSE IF st.ncopy + 1 = fault THEN [ Visit(st, c, f) EXCEPT !.raised = TRUE ]
    ELSE [ Visit(st, c, f) EXCEPT
                     !.out[c] = copy2(st.out[c], f.name, Data(version, f)),
                     !.lists[c] = Append(st.lists[c], DestPath(c, f.name)),
                     !.ncopy = st.ncopy + 1 ]

\* A mutant of WalkLoop: the loop ends at the first file it copies.
RECURSIVE WalkLoopFirstMatch(_, _, _, _, _, _)
WalkLoopFirstMatch(st, c, tree, i, version, fault) ==
    IF i > Len(tree) THEN st
    ELSE LET next == CopyFile(st, c, tree[i], version, fault) IN
           IF next.ncopy > st.ncopy THEN next
           ELSE WalkLoopFirstMatch(next, c, tree, i + 1, version, fault)

\* for root, dirs, files in os.walk(extracted_dir): for file in files: ...
RECURSIVE WalkLoop(_, _, _, _, _, _)
WalkLoop(st, c, tree, i, version, fault) ==
    IF i > Len(tree) THEN st
    ELSE WalkLoop(CopyFile(st, c, tree[i], version, fault), c, tree, i + 1,
                  version, fault)

\* The four loops, one after the other.
RECURSIVE CategoryLoops(_, _, _, _, _)
CategoryLoops(st, k, tree, version, fault) ==
    IF k > Len(CATEGORIES) THEN st
    ELSE CategoryLoops(WalkLoop(st, CATEGORIES[k], tree, 1, version, fault),
                       k + 1, tree, version, fault)

NoLists == [ c \in CategorySet |-> << >> ]

\* copy_assets(extracted_dir, output_dir): the directories are made first,
\* then the loops run.  The result carries the output directory as left
\* behind, the four returned lists and whether a copy raised.
copy_assets(tree, version, out, fault) ==
    CategoryLoops([ out    |-> [ c \in CategorySet |-> makedirs(out[c]) ],
                    lists  |-> NoLists,
                    ncopy  |-> 0,
                    visits |-> << >>,
                    raised |-> FALSE ],
                  1, tree, version, fault)

(***************************************************************************)
(* The release archive and extract_zip                                     *)
(***************************************************************************)
\* The directory a release archive packs its files under.
ROOT_DIR == "govuk-frontend-5.10.2"

\* Top-level entries an archive may carry besides (or instead of) ROOT_DIR.
TopEntries ==
    { [ name |-> ROOT_DIR,       isdir |-> TRUE  ],
      [ name |-> "__MACOSX",     isdir |-> TRUE  ],
      [ name |-> "LICENSE.txt",  isdir |-> FALSE ],
      [ name |-> "zz-docs",      isdir |-> TRUE  ] }

ZipEntry == [ name |-> ZIP_NAME, isdir |-> FALSE ]

HasRoot(tops) == \E e \in tops : e.name = ROOT_DIR

\* An archive: whether the zip decoder accepts it, its top-level entries and
\* the files below ROOT_DIR (the other directories are empty).
Payloads(tops, names, n) ==
    { [ valid |-> FALSE, tops |-> {}, tree |-> << >> ] }
    \cup { [ valid |-> TRUE, tops |-> t, tree |-> << >> ] : t \in SUBSET tops }
    \cup { [ valid |-> TRUE, tops |-> t, tree |-> tr ] :
             t \in { u \in SUBSET tops : HasRoot(u) },
             tr \in Trees(names, n) \ { << >> } }

\* The temporary directory before tempfile.TemporaryDirectory() and after
\* its cleanup.
NoTemp == [ exists |-> FALSE, zip |-> << >>, entries |-> {}, tree |-> << >> ]

NewTemp == [ NoTemp EXCEPT !.exists = TRUE ]

\* The results os.listdir may give for a directory: its entries in any order.
Listings(entries) ==
    { s \in [1..Cardinality(entries) -> entries] :
        \A i, j \in 1..Cardinality(entries) : i # j => s[i] # s[j] }

\* zip_ref.extractall(extract_dir)
extractall(temp) ==
    [ temp EXCEPT !.entries = temp.entries \cup temp.zip[1].tops,
                  !.tree = temp.zip[1].tree ]

\* A mutant of extracted_dirs: the isdir filter is dropped.
extracted_dirs_unfiltered(listing) == listing

\* [d for d in os.listdir(extract_dir) if os.path.isdir(...)]
extracted_dirs(listing) == SelectSeq(listing, LAMBDA e : e.isdir)

ExtractionFailed == "Failed to extract GOV.UK Frontend"

\* extract_zip(zip_path, extract_dir), with `listing` what os.listdir gives
\* after the extraction.
extract_zip(temp, listing) ==
    IF ~temp.zip[1].valid
    THEN [ raised |-> TRUE, error |-> "BadZipFile", temp |-> temp,
           extracted_dir |-> "" ]
    ELSE IF extracted_dirs(listing) = << >>
    THEN [ raised |-> TRUE, error |-> ExtractionFailed,
           temp |-> extractall(temp), extracted_dir |-> "" ]
    ELSE [ raised |-> FALSE, error |-> "", temp |-> extractall(temp),
           extracted_dir |-> extracted_dirs(listing)[1].name ]

\* The files os.walk(extracted_dir) yields.
ExtractedTree(temp, extracted_dir) ==
    IF extracted_dir = ROOT_DIR THEN temp.tree ELSE << >>

(***************************************************************************)
(* save_version_info                                                       *)
(***************************************************************************)
\* datetime.datetime.now().strftime("%Y-%m-%d")
Today == "2026-11-06"

EmptyFiles == [ css |-> << >>, js |-> << >>, assets |-> << >> ]

\* A mutant of ManifestData: the version recorded is the default one.
ManifestDataDefaultVersion(version, copied_files) ==
    [ version |-> DEFAULT_VERSION, download_date |-> Today, files |-> EmptyFiles ]

\* A mutant of ManifestData: the copied style sheets and scripts are listed.
ManifestDataWithFiles(version, copied_files) ==
    [ version |-> version, download_date |-> Today,
      files |-> [ css |-> copied_files["css"], js |-> copied_files["js"],
                  assets |-> << >> ] ]

\* The record save_version_info composes.  copied_files is what main holds
\* at the call; the function is not given it.
ManifestData(version, copied_files) ==
    [ version |-> version, download_date |-> Today, files |-> EmptyFiles ]

\* What a write that failed after open(path, 'w') leaves: an empty file.
TruncatedFile == [ version |-> "", download_date |-> "", files |-> EmptyFiles ]

\* A mutant of WriteManifest: an existing manifest keeps its version.
WriteManifestMerging(old, data) ==
    IF old = << >> THEN << data >>
    ELSE << [ data EXCEPT !.version = old[1].version ] >>

\* with open(version_file_path, 'w') as f: json.dump(data, f, indent=2)
WriteManifest(old, data) == << data >>

(***************************************************************************)
(* get_latest_version                                                      *)
(***************************************************************************)
StatusCodes == { 200, 204, 301, 403, 404, 429, 500, 502, 503 }

\* Bodies of a response: not JSON, JSON that is no object, an object without
\* the field, an object with it.
Bodies ==
    { [ kind |-> "malformed", tag_name |-> "" ],
      [ kind |-> "list", tag_name |-> "" ],
      [ kind |-> "no_field", tag_name |-> "" ] }
    \cup { [ kind |-> "release", tag_name |-> v ] :
             v \in Versions \cup { "v4.0.0" } }

\* What requests.get gives: a response, or an exception.
Responses ==
    { [ exc |-> e, status_code |-> 0, body |-> [ kind |-> "malformed", tag_name |-> "" ] ] :
        e \in { "ConnectionError", "Timeout" } }
    \cup { [ exc |-> "", status_code |-> s, body |-> b ] :
             s \in StatusCodes, b \in Bodies }

\* A mutant of get_latest_version: the except clause is missing.
get_latest_version_no_except(resp) ==
    IF resp.exc # "" THEN [ raised |-> TRUE, value |-> "" ]
    ELSE IF resp.status_code = 200
    THEN IF resp.body.kind = "release"
         THEN [ raised |-> FALSE, value |-> resp.body.tag_name ]
         ELSE [ raised |-> TRUE, value |-> "" ]
    ELSE [ raised |-> FALSE, value |-> DEFAULT_VERSION ]

\* get_latest_version(): response.json()["tag_name"] raises for a body that
\* is not JSON, not an object or lacks the field; every exception is caught.
get_latest_version(resp) ==
    IF resp.exc # "" THEN [ raised |-> FALSE, value |-> DEFAULT_VERSION ]
    ELSE IF resp.status_code = 200
    THEN IF resp.body.kind = "release"
         THEN [ raised |-> FALSE, value |-> resp.body.tag_name ]
         ELSE [ raised |-> FALSE, value |-> DEFAULT_VERSION ]
    ELSE [ raised |-> FALSE, value |-> DEFAULT_VERSION ]

(***************************************************************************)
(* download_govuk_frontend                                                 *)
(***************************************************************************)
NoError == [ msg |-> "", code |-> 0 ]

GOVUK_FRONTEND_REPO == "alphagov/govuk-frontend"

\* f"https://github.com/{GOVUK_FRONTEND_REPO}/archive/{version}.zip"
ZipUrl(version) ==
    "https://github.com/" \o GOVUK_FRONTEND_REPO \o "/archive/" \o version \o ".zip"

DownloadFailed == "Failed to download GOV.UK Frontend: HTTP"

\* What the archive endpoint may do: requests.get raises, answers with a
\* status, or answers 200 and the stream breaks while it is written.
DownloadOutcomes ==
    { [ exc |-> "ConnectionError", status_code |-> 0, stream_ok |-> FALSE ],
      [ exc |-> "", status_code |-> 404, stream_ok |-> FALSE ],
      [ exc |-> "", status_code |-> 503, stream_ok |-> FALSE ],
      [ exc |-> "", status_code |-> 200, stream_ok |-> FALSE ],
      [ exc |-> "", status_code |-> 200, stream_ok |-> TRUE ] }

PartialZip == [ valid |-> FALSE, tops |-> {}, tree |-> << >> ]

WithZip(temp, payload) ==
    [ temp EXCEPT !.zip = << payload >>, !.entries = temp.entries \cup { ZipEntry } ]

\* What a call leaves: the URL asked, the status received, whether it raised
\* and with what, and the temporary directory.
DownloadResult(version, resp, raised, error, temp) ==
    [ zip_url |-> ZipUrl(version), status_code |-> resp.status_code,
      raised |-> raised, error |-> error, temp |-> temp ]

StreamBroke == [ msg |-> "ChunkedEncodingError", code |-> 0 ]

\* A mutant of download_govuk_frontend: the status is not checked, the body
\* of an error response is written like any other.
download_govuk_frontend_unchecked(temp, version, resp, payload) ==
    IF resp.exc # ""
    THEN DownloadResult(version, resp, TRUE, [ msg |-> resp.exc, code |-> 0 ], temp)
    ELSE IF resp.status_code # 200
    THEN DownloadResult(version, resp, FALSE, NoError, WithZip(temp, PartialZip))
    ELSE IF ~resp.stream_ok
    THEN DownloadResult(version, resp, TRUE, StreamBroke, WithZip(temp, PartialZip))
    ELSE DownloadResult(version, resp, FALSE, NoError, WithZip(temp, payload))

\* download_govuk_frontend(temp_dir, version): the status check comes before
\* the file is opened; a stream that breaks leaves a partial file.
download_govuk_frontend(temp, version, resp, payload) ==
    IF resp.exc # ""
    THEN DownloadResult(version, resp, TRUE, [ msg |-> resp.exc, code |-> 0 ], temp)
    ELSE IF resp.status_code # 200
    THEN DownloadResult(version, resp, TRUE,
                        [ msg |-> DownloadFailed, code |-> resp.status_code ], temp)
    ELSE IF ~resp.stream_ok
    THEN DownloadResult(version, resp, TRUE, StreamBroke, WithZip(temp, PartialZip))
    ELSE DownloadResult(version, resp, FALSE, NoError, WithZip(temp, payload))

(***************************************************************************)
(* State                                                                   *)
(***************************************************************************)
VARIABLES
    archive,          \* environment: the archive the download endpoint serves
    release_listing,  \* environment: the release-listing endpoint's answer
    pc,               \* where the running script is ("idle": none runs)
    caller,           \* who started the running module 1: "shell" or "m2"
    runs,             \* script invocations from the shell so far
    faults,           \* failed requests and I/O errors so far
    m1,               \* module 1: arguments, locals and output of the process
    listdir,          \* extract_zip called on its own: what os.listdir gave it
    temp_dir,         \* the TemporaryDirectory of module 1
    fs_out,           \* the assets output directory: the four category dirs
    manifest,         \* the version file: << >> or << its content >>
    exits,            \* the exit status of the latest run of each script
    site,             \* the site directory: whether it exists, its files
    m2,               \* module 2: arguments, locals and output of the process
    m3,               \* module 3: arguments, locals and output of the process
    harness,          \* a function called on its own: calls made, whether the last raised
    resolver          \* get_latest_version on its own: position, response, result

vars == << archive, release_listing, pc, caller, runs, faults, m1, listdir,
           temp_dir, fs_out, manifest, exits, site, m2, m3, harness, resolver >>

\* What no script writes.
aux == << archive, release_listing, harness, resolver >>

\* A printed line.
Line(kind, msg, code) == [ kind |-> kind, msg |-> msg, code |-> code ]

\* print(f"Error: {e}")
ErrorLine(error) == Line("Error", error.msg, error.code)

\* The arguments and locals of module 1's main when no module 1 runs.
M1Idle ==
    [ cli_version |-> << >>, version |-> "", extracted_dir |-> "",
      zip_url |-> "", status_code |-> 0,
      copied_files |-> NoLists, error |-> NoError, status |-> -1,
      printed |-> << >> ]

NoExits == [ m1 |-> -1, m2 |-> -1, m3 |-> -1 ]

HarnessIdle == [ calls |-> 0, completed |-> 0, raised |-> FALSE, visits |-> << >> ]

ResolverIdle ==
    [ pc |-> "off", response |-> CHOOSE r \in Responses : r.exc = "Timeout",
      result |-> [ raised |-> FALSE, value |-> "" ] ]

\* What the release-listing endpoint answers while the scripts run: it is
\* unreachable, or the latest release is a newer one than the default.
MainListings ==
    { r \in Responses :
        \/ r.exc = "ConnectionError"
        \/ /\ r.status_code = 200
           /\ r.body = [ kind |-> "release", tag_name |-> OtherVersion ] }

MainFileNames == { "a.min.css", "readme.md" }

MainTops == { e \in TopEntries : e.name \in { ROOT_DIR, "__MACOSX" } }

RootOnly == { e \in TopEntries : e.name = ROOT_DIR }

\* The archives of the specification of the three scripts together: one the
\* decoder rejects, one without a directory, one with a style sheet, a file
\* that is no asset and a style sheet of the same name further down.
SitePayloads ==
    { PartialZip,
      [ valid |-> TRUE, tops |-> {}, tree |-> << >> ],
      [ valid |-> TRUE, tops |-> RootOnly,
        tree |-> << [ dir |-> "", name |-> "a.min.css" ],
                    [ dir |-> "", name |-> "readme.md" ],
                    [ dir |-> "dist", name |-> "a.min.css" ] >> ] }

\* An environment failure may still happen.
CanFault == faults < MaxFaults

(***************************************************************************)
(* Module 1: main                                                          *)
(***************************************************************************)
\* A mutant of ParseVersion: without --version the release listing is asked.
ParseVersionQuerying(cli_version, listing) ==
    IF cli_version = << >> THEN get_latest_version(listing).value
    ELSE cli_version[1]

\* parser.add_argument("--version", default=DEFAULT_VERSION); the release
\* listing is not consulted.
ParseVersion(cli_version, listing) ==
    IF cli_version = << >> THEN DEFAULT_VERSION ELSE cli_version[1]

\* The --version arguments module 1 is started with (<< >>: none).
CliVersions == { << >> } \cup { << v >> : v \in Versions }

M1Pcs == { "m1_download", "m1_extract", "m1_copy", "m1_manifest", "m1_except",
           "m1_exit" }

\* main up to the try block: the arguments are parsed, the output directory
\* and the temporary directory are made.
M1Enter(cli_version, from) ==
    /\ m1' = [ M1Idle EXCEPT !.cli_version = cli_version,
                             !.version = ParseVersion(cli_version, release_listing) ]
    /\ temp_dir' = NewTemp
    /\ caller' = from
    /\ exits' = [ exits EXCEPT !.m1 = -1 ]
    /\ site' = [ site EXCEPT !.exists = TRUE ]
    /\ pc' = "m1_download"

M1Start ==
    /\ pc = "idle"
    /\ runs < MaxRuns
    /\ runs' = runs + 1
    /\ \E cli_version \in CliVersions : M1Enter(cli_version, "shell")
    /\ UNCHANGED << aux, faults, listdir, fs_out, manifest, m2, m3 >>

\* The locals of main after requests.get: the URL asked, the status received.
M1Requested(r) == [ m1 EXCEPT !.zip_url = r.zip_url, !.status_code = r.status_code ]

M1Download ==
    /\ pc = "m1_download"
    /\ \E resp \in DownloadOutcomes :
         LET r == download_govuk_frontend(temp_dir, m1.version, resp, archive)
             failed == resp.exc # "" \/ resp.status_code # 200 \/ ~resp.stream_ok
         IN
           /\ failed => CanFault
           /\ faults' = IF failed THEN faults + 1 ELSE faults
           /\ temp_dir' = r.temp
           /\ IF r.raised
              THEN /\ m1' = [ M1Requested(r) EXCEPT !.error = r.error ]
                   /\ pc' = "m1_except"
              ELSE /\ m1' = [ M1Requested(r) EXCEPT
                                !.printed = Append(m1.printed,
                                                   Line("Info", "Download complete", 0)) ]
                   /\ pc' = "m1_extract"
    /\ UNCHANGED << aux, caller, runs, listdir, fs_out, manifest, exits, site,
                    m2, m3 >>

\* The entries of the directory when os.listdir is called.
AfterExtraction(temp) == IF temp.zip[1].valid THEN extractall(temp) ELSE temp

M1Extract ==
    /\ pc = "m1_extract"
    /\ \E listing \in Listings(AfterExtraction(temp_dir).entries) :
         LET r == extract_zip(temp_dir, listing) IN
           /\ temp_dir' = r.temp
           /\ IF r.raised
              THEN /\ m1' = [ m1 EXCEPT !.error = [ msg |-> r.error, code |-> 0 ] ]
                   /\ pc' = "m1_except"
              ELSE /\ m1' = [ m1 EXCEPT !.extracted_dir = r.extracted_dir,
                                        !.printed = Append(m1.printed,
                                                           Line("Info", "Extracted to", 0)) ]
                   /\ pc' = "m1_copy"
    /\ UNCHANGED << aux, caller, runs, faults, listdir, fs_out, manifest,
                    exits, site, m2, m3 >>

M1Copy ==
    /\ pc = "m1_copy"
    /\ LET tree == ExtractedTree(temp_dir, m1.extracted_dir) IN
         \E fault \in 0..Len(tree) :
           LET r == copy_assets(tree, m1.version, fs_out, fault) IN
             /\ r.raised => CanFault
             /\ fault # 0 => r.raised
             /\ faults' = IF r.raised THEN faults + 1 ELSE faults
             /\ fs_out' = r.out
             /\ IF r.raised
                THEN /\ m1' = [ m1 EXCEPT !.error = [ msg |-> "OSError", code |-> 0 ] ]
                     /\ pc' = "m1_except"
                ELSE /\ m1' = [ m1 EXCEPT !.copied_files = r.lists,
                                          !.printed = Append(m1.printed,
                                                             Line("Info", "Copied", r.ncopy)) ]
                     /\ pc' = "m1_manifest"
    /\ UNCHANGED << aux, caller, runs, listdir, temp_dir, manifest, exits,
                    site, m2, m3 >>

SuccessM1 == "Asset download and extraction complete!"

\* save_version_info and the summary that follows it: the try block ends.
\* open() may fail, or the write after it, which leaves an empty file.
M1Manifest ==
    /\ pc = "m1_manifest"
    /\ \/ /\ manifest' = WriteManifest(manifest, ManifestData(m1.version, m1.copied_files))
          /\ m1' = [ m1 EXCEPT !.status = 0,
                               !.printed = Append(m1.printed, Line("Info", SuccessM1, 0)) ]
          /\ pc' = "m1_exit"
          /\ UNCHANGED faults
       \/ /\ CanFault
          /\ faults' = faults + 1
          /\ \/ UNCHANGED manifest
             \/ manifest' = << TruncatedFile >>
          /\ m1' = [ m1 EXCEPT !.error = [ msg |-> "OSError", code |-> 0 ] ]
          /\ pc' = "m1_except"
    /\ UNCHANGED << aux, caller, runs, listdir, temp_dir, fs_out, exits, site,
                    m2, m3 >>

\* A mutant of M1Except: the handler prints and the run ends normally.
M1ExceptNoExit ==
    /\ pc = "m1_except"
    /\ m1' = [ m1 EXCEPT !.printed = Append(m1.printed, ErrorLine(m1.error)),
                         !.status = 0 ]
    /\ pc' = "m1_exit"
    /\ UNCHANGED << aux, caller, runs, faults, listdir, temp_dir, fs_out,
                    manifest, exits, site, m2, m3 >>

\* A mutant of M1Except: the handler empties the category directories.
M1ExceptRollingBack ==
    /\ pc = "m1_except"
    /\ m1' = [ m1 EXCEPT !.printed = Append(m1.printed, ErrorLine(m1.error)),
                         !.status = 1 ]
    /\ fs_out' = [ c \in CategorySet |-> [ fs_out[c] EXCEPT !.files = EmptyDir ] ]
    /\ pc' = "m1_exit"
    /\ UNCHANGED << aux, caller, runs, faults, listdir, temp_dir, manifest,
                    exits, site, m2, m3 >>

\* A mutant of M1Except: the handler records the version before it exits.
M1ExceptSalvaging ==
    /\ pc = "m1_except"
    /\ m1' = [ m1 EXCEPT !.printed = Append(m1.printed, ErrorLine(m1.error)),
                         !.status = 1 ]
    /\ manifest' = WriteManifest(manifest, ManifestData(m1.version, m1.copied_files))
    /\ pc' = "m1_exit"
    /\ UNCHANGED << aux, caller, runs, faults, listdir, temp_dir, fs_out,
                    exits, site, m2, m3 >>

\* except Exception as e: print(f"Error: {e}"); sys.exit(1)
M1Except ==
    /\ pc = "m1_except"
    /\ m1' = [ m1 EXCEPT !.printed = Append(m1.printed, ErrorLine(m1.error)),
                         !.status = 1 ]
    /\ pc' = "m1_exit"
    /\ UNCHANGED << aux, caller, runs, faults, listdir, temp_dir, fs_out,
                    manifest, exits, site, m2, m3 >>

\* A mutant of WithExit: the directory is removed on the success path only.
WithExitOnSuccessOnly(temp, status) == IF status = 0 THEN NoTemp ELSE temp

\* TemporaryDirectory.__exit__: the directory and all below it are removed,
\* whether the block ended normally or by SystemExit.
WithExit(temp, status) == NoTemp

\* The with block is left and the process ends with the status.
M1Exit ==
    /\ pc = "m1_exit"
    /\ temp_dir' = WithExit(temp_dir, m1.status)
    /\ exits' = [ exits EXCEPT !.m1 = m1.status ]
    /\ m1' = M1Idle
    /\ pc' = IF caller = "shell" THEN "idle" ELSE "m2_assets_return"
    /\ UNCHANGED << aux, caller, runs, faults, listdir, fs_out, manifest, site,
                    m2, m3 >>

(***************************************************************************)
(* Module 2                                                                *)
(***************************************************************************)
GOVUK_FRONTEND_VERSION == "5.10.2"
GOVUK_FRONTEND_CDN_BASE ==
    "https://cdn.jsdelivr.net/npm/govuk-frontend@" \o GOVUK_FRONTEND_VERSION
GOVUK_FRONTEND_CSS ==
    GOVUK_FRONTEND_CDN_BASE \o "/dist/govuk-frontend-" \o GOVUK_FRONTEND_VERSION \o ".min.css"
GOVUK_FRONTEND_JS ==
    GOVUK_FRONTEND_CDN_BASE \o "/dist/govuk-frontend-" \o GOVUK_FRONTEND_VERSION \o ".min.js"

DefaultSiteName == "GOV.UK Frontend Jekyll Site"

\* The --site-name arguments module 2 is started with.
SiteNames == { DefaultSiteName, "cdn.jsdelivr.net" }

LAYOUT_FILE == "_layouts/govuk-default.html"

\* The title line of the layout: Liquid, filled in by Jekyll and not by
\* module 2.
LayoutTitle == "{% if page.title %}{{ page.title }} - {% endif %}{{ site.title }}"

\* The licence link of the footer, the same in both modes.
LayoutLicence ==
    "https://www.nationalarchives.gov.uk/doc/open-government-licence/version/3/"

\* A mutant of LayoutContent: the icons are local in both modes.
LayoutContentLocalIcons(use_cdn) ==
    << LayoutTitle,
       IF use_cdn THEN GOVUK_FRONTEND_CSS
       ELSE "{{ '/assets/css/govuk-frontend-" \o GOVUK_FRONTEND_VERSION
               \o ".min.css' | relative_url }}",
       "{{ '/assets/css/custom.css' | relative_url }}",
       "{{ '/assets/images/favicon.ico' | relative_url }}",
       "{{ '/assets/images/govuk-icon-mask.svg' | relative_url }}",
       "{{ '/assets/images/govuk-icon-180.png' | relative_url }}",
       LayoutLicence,
       IF use_cdn THEN GOVUK_FRONTEND_JS
       ELSE "{{ '/assets/js/govuk-frontend-" \o GOVUK_FRONTEND_VERSION
               \o ".min.js' | relative_url }}" >>

\* The lines of the layout that name an address, in the order of the
\* template: title, style sheet, custom style sheet, the three icons, the
\* licence link, the script.
LayoutContent(use_cdn) ==
    IF use_cdn
    THEN << LayoutTitle,
            GOVUK_FRONTEND_CSS,
            "{{ '/assets/css/custom.css' | relative_url }}",
            GOVUK_FRONTEND_CDN_BASE \o "/dist/assets/images/favicon.ico",
            GOVUK_FRONTEND_CDN_BASE \o "/dist/assets/images/govuk-icon-mask.svg",
            GOVUK_FRONTEND_CDN_BASE \o "/dist/assets/images/govuk-icon-180.png",
            LayoutLicence,
            GOVUK_FRONTEND_JS >>
    ELSE << LayoutTitle,
            "{{ '/assets/css/govuk-frontend-" \o GOVUK_FRONTEND_VERSION
               \o ".min.css' | relative_url }}",
            "{{ '/assets/css/custom.css' | relative_url }}",
            "{{ '/assets/images/favicon.ico' | relative_url }}",
            "{{ '/assets/images/govuk-icon-mask.svg' | relative_url }}",
            "{{ '/assets/images/govuk-icon-180.png' | relative_url }}",
            LayoutLicence,
            "{{ '/assets/js/govuk-frontend-" \o GOVUK_FRONTEND_VERSION
               \o ".min.js' | relative_url }}" >>

\* A mutant of ReadmeContent: after a failed download the README reports the
\* mode the site falls back to.
ReadmeContentByOutcome(version, use_cdn) ==
    << "GOV.UK Frontend version: " \o version,
       "Asset mode: " \o (IF use_cdn \/ exits.m1 > 0 THEN "CDN" ELSE "self-hosted") >>

\* The lines of the README that depend on the arguments.
ReadmeContent(version, use_cdn) ==
    << "GOV.UK Frontend version: " \o version,
       "Asset mode: " \o (IF use_cdn THEN "CDN" ELSE "self-hosted") >>

NoSite == [ exists |-> FALSE, dirs |-> FALSE, files |-> EmptyDir ]

M2Idle ==
    [ cdn |-> FALSE, site_name |-> "", error |-> NoError, status |-> -1,
      printed |-> << >> ]

M2Pcs == { "m2_structure", "m2_assets", "m2_assets_return", "m2_config",
           "m2_gemfile", "m2_css", "m2_layout", "m2_index", "m2_readme",
           "m2_except", "m2_exit" }

\* with open(path, 'w') as f: f.write(content)
WriteFile(s, name, content) == [ s EXCEPT !.files = (name :> content) @@ s.files ]

\* main up to the try block.
M2Start ==
    /\ pc = "idle"
    /\ runs < MaxRuns
    /\ runs' = runs + 1
    /\ \E cdn \in BOOLEAN, site_name \in SiteNames :
         m2' = [ M2Idle EXCEPT !.cdn = cdn, !.site_name = site_name ]
    /\ site' = [ site EXCEPT !.exists = TRUE ]
    /\ exits' = [ exits EXCEPT !.m2 = -1 ]
    /\ pc' = "m2_structure"
    /\ UNCHANGED << aux, caller, faults, m1, listdir, temp_dir, fs_out,
                    manifest, m3 >>

\* An exception raised in the try block by a failing write.
M2Raise ==
    /\ CanFault
    /\ faults' = faults + 1
    /\ m2' = [ m2 EXCEPT !.error = [ msg |-> "OSError", code |-> 0 ] ]
    /\ pc' = "m2_except"

\* create_jekyll_structure: the directories of JEKYLL_DIRS, the four asset
\* directories among them.
M2Structure ==
    /\ pc = "m2_structure"
    /\ \/ /\ site' = [ site EXCEPT !.dirs = TRUE ]
          /\ fs_out' = [ c \in CategorySet |-> makedirs(fs_out[c]) ]
          /\ pc' = IF m2.cdn THEN "m2_config" ELSE "m2_assets"
          /\ UNCHANGED << m2, faults >>
       \/ /\ M2Raise
          /\ UNCHANGED << site, fs_out >>
    /\ UNCHANGED << aux, caller, runs, m1, listdir, temp_dir, manifest, exits, m3 >>

ModuleOneMissing == "module1_download_assets.py not found"

DownloadWarning == "Failed to download assets"

\* download_assets_if_needed up to subprocess.run: module 1 is started with
\* the v-prefixed version, or is found missing.
M2Assets ==
    /\ pc = "m2_assets"
    /\ \/ /\ M1Enter(<< "v" \o GOVUK_FRONTEND_VERSION >>, "m2")
          /\ UNCHANGED m2
       \/ /\ m2' = [ m2 EXCEPT !.printed = Append(m2.printed,
                                                  Line("Warning", ModuleOneMissing, 0)) ]
          /\ pc' = "m2_config"
          /\ UNCHANGED << m1, temp_dir, caller, exits, site >>
    /\ UNCHANGED << aux, runs, faults, listdir, fs_out, manifest, m3 >>

\* A mutant of M2AssetsReturn: the CalledProcessError is not caught in
\* download_assets_if_needed and reaches the handler of main.
M2AssetsReturnFatal ==
    /\ pc = "m2_assets_return"
    /\ m2' = IF exits.m1 # 0
             THEN [ m2 EXCEPT !.error = [ msg |-> "CalledProcessError", code |-> exits.m1 ] ]
             ELSE m2
    /\ caller' = "shell"
    /\ pc' = IF exits.m1 # 0 THEN "m2_except" ELSE "m2_config"
    /\ UNCHANGED << aux, runs, faults, m1, listdir, temp_dir, fs_out, manifest,
                    exits, site, m3 >>

\* subprocess.run(..., check=True) returns: a non-zero status is a
\* CalledProcessError, caught and printed as a warning.
M2AssetsReturn ==
    /\ pc = "m2_assets_return"
    /\ m2' = IF exits.m1 # 0
             THEN [ m2 EXCEPT !.printed = Append(m2.printed,
                                                 Line("Warning", DownloadWarning, exits.m1)) ]
             ELSE m2
    /\ caller' = "shell"
    /\ pc' = "m2_config"
    /\ UNCHANGED << aux, runs, faults, m1, listdir, temp_dir, fs_out, manifest,
                    exits, site, m3 >>

SuccessM2 == "Jekyll structure has been created"

\* One file-writing step of main: the file is written and the next step
\* follows (after the last one, the closing lines), or the write raises.
M2Write(at, next, name, content) ==
    /\ pc = at
    /\ \/ /\ site' = WriteFile(site, name, content)
          /\ pc' = next
          /\ m2' = IF next = "m2_exit"
                   THEN [ m2 EXCEPT !.status = 0,
                                    !.printed = Append(m2.printed, Line("Info", SuccessM2, 0)) ]
                   ELSE m2
          /\ UNCHANGED faults
       \/ /\ M2Raise
          /\ UNCHANGED site
    /\ UNCHANGED << aux, caller, runs, m1, listdir, temp_dir, fs_out, manifest,
                    exits, m3 >>

M2Config ==
    M2Write("m2_config", "m2_gemfile", "_config.yml", << "title: " \o m2.site_name >>)

M2Gemfile ==
    M2Write("m2_gemfile", "m2_css", "Gemfile", << "gem jekyll" >>)

M2CustomCss ==
    M2Write("m2_css", "m2_layout", "assets/css/custom.css", << "/* Custom styles */" >>)

M2Layout ==
    M2Write("m2_layout", "m2_index", LAYOUT_FILE, LayoutContent(m2.cdn))

M2Index ==
    M2Write("m2_index", "m2_readme", "index.md", << "layout: govuk-default" >>)

M2Readme ==
    M2Write("m2_readme", "m2_exit", "README.md",
            ReadmeContent("v" \o GOVUK_FRONTEND_VERSION, m2.cdn))

\* except Exception as e: print(f"Error: {e}"); sys.exit(1)
M2Except ==
    /\ pc = "m2_except"
    /\ m2' = [ m2 EXCEPT !.printed = Append(m2.printed, ErrorLine(m2.error)),
                         !.status = 1 ]
    /\ pc' = "m2_exit"
    /\ UNCHANGED << aux, caller, runs, faults, m1, listdir, temp_dir, fs_out,
                    manifest, exits, site, m3 >>

\* The process ends with the status.
M2Exit ==
    /\ pc = "m2_exit"
    /\ exits' = [ exits EXCEPT !.m2 = m2.status ]
    /\ m2' = M2Idle
    /\ pc' = "idle"
    /\ UNCHANGED << aux, caller, runs, faults, m1, listdir, temp_dir, fs_out,
                    manifest, site, m3 >>

(***************************************************************************)
(* Module 3                                                                *)
(***************************************************************************)
CDN_MARKER == "cdn.jsdelivr.net"

\* needle in line
InLine(needle, line) ==
    \E i \in 1..(Len(line) - Len(needle) + 1) :
        SubSeq(line, i, i + Len(needle) - 1) = needle

\* needle in content, the content being the lines of a file
InContent(needle, content) ==
    \E k \in 1..Len(content) : InLine(needle, content[k])

\* A mutant of detect_asset_mode: any absolute address counts as the marker.
detect_asset_mode_any_url(s) ==
    IF LAYOUT_FILE \notin DOMAIN s.files THEN "unknown"
    ELSE IF InContent("https://", s.files[LAYOUT_FILE]) THEN "CDN"
    ELSE "self-hosted"

\* detect_asset_mode(site_dir)
detect_asset_mode(s) ==
    IF LAYOUT_FILE \notin DOMAIN s.files THEN "unknown"
    ELSE IF InContent(CDN_MARKER, s.files[LAYOUT_FILE]) THEN "CDN"
    ELSE "self-hosted"

M3Idle ==
    [ site_dir |-> "", asset_mode |-> "", error |-> NoError, status |-> -1,
      printed |-> << >> ]

M3Pcs == { "m3_detect", "m3_start_page", "m3_question_page",
           "m3_components_page", "m3_except", "m3_exit" }

\* The directories module 3 may be pointed at: the site directory, or a path
\* where nothing is.
SiteDirs == { "site", "nowhere" }

\* os.path.isdir(args.site_dir)
isdir(site_dir, s) == site_dir = "site" /\ s.exists

NoDirectory == "Directory does not exist"

M3Raise ==
    /\ CanFault
    /\ faults' = faults + 1
    /\ m3' = [ m3 EXCEPT !.error = [ msg |-> "OSError", code |-> 0 ] ]
    /\ pc' = "m3_except"

\* A mutant of M3Start: a missing directory is made and the run goes on.
M3StartCreating ==
    /\ pc = "idle"
    /\ runs < MaxRuns
    /\ runs' = runs + 1
    /\ exits' = [ exits EXCEPT !.m3 = -1 ]
    /\ \E site_dir \in SiteDirs :
         /\ m3' = [ M3Idle EXCEPT !.site_dir = site_dir ]
         /\ site' = [ site EXCEPT !.exists = TRUE ]
         /\ pc' = "m3_detect"
    /\ UNCHANGED << aux, caller, faults, m1, listdir, temp_dir, fs_out,
                    manifest, m2 >>

\* main up to the try block: a missing directory ends the run with status 1.
M3Start ==
    /\ pc = "idle"
    /\ runs < MaxRuns
    /\ runs' = runs + 1
    /\ exits' = [ exits EXCEPT !.m3 = -1 ]
    /\ \E site_dir \in SiteDirs :
         IF isdir(site_dir, site)
         THEN /\ m3' = [ M3Idle EXCEPT !.site_dir = site_dir ]
              /\ pc' = "m3_detect"
         ELSE /\ m3' = [ M3Idle EXCEPT !.site_dir = site_dir, !.status = 1,
                                       !.printed = << Line("Error", NoDirectory, 0) >> ]
              /\ pc' = "m3_exit"
    /\ UNCHANGED << aux, caller, faults, m1, listdir, temp_dir, fs_out,
                    manifest, site, m2 >>

\* asset_mode = detect_asset_mode(args.site_dir); reading the layout may raise.
M3Detect ==
    /\ pc = "m3_detect"
    /\ \/ /\ m3' = [ m3 EXCEPT !.asset_mode = detect_asset_mode(site) ]
          /\ pc' = "m3_start_page"
          /\ UNCHANGED faults
       \/ /\ LAYOUT_FILE \in DOMAIN site.files
          /\ M3Raise
    /\ UNCHANGED << aux, caller, runs, m1, listdir, temp_dir, fs_out, manifest,
                    exits, site, m2 >>

SuccessM3 == "Sample pages have been created"

M3Write(at, next, name) ==
    /\ pc = at
    /\ \/ /\ site' = WriteFile(site, name, << "layout: govuk-default" >>)
          /\ pc' = next
          /\ m3' = IF next = "m3_exit"
                   THEN [ m3 EXCEPT !.status = 0,
                                    !.printed = Append(m3.printed, Line("Info", SuccessM3, 0)) ]
                   ELSE m3
          /\ UNCHANGED faults
       \/ /\ M3Raise
          /\ UNCHANGED site
    /\ UNCHANGED << aux, caller, runs, m1, listdir, temp_dir, fs_out, manifest,
                    exits, m2 >>

M3StartPage == M3Write("m3_start_page", "m3_question_page", "start-page.md")

M3QuestionPage == M3Write("m3_question_page", "m3_components_page", "question-page.md")

M3ComponentsPage == M3Write("m3_components_page", "m3_exit", "components.md")

\* except Exception as e: print(f"Error: {e}"); sys.exit(1)
M3Except ==
    /\ pc = "m3_except"
    /\ m3' = [ m3 EXCEPT !.printed = Append(m3.printed, ErrorLine(m3.error)),
                         !.status = 1 ]
    /\ pc' = "m3_exit"
    /\ UNCHANGED << aux, caller, runs, faults, m1, listdir, temp_dir, fs_out,
                    manifest, exits, site, m2 >>

\* The process ends with the status.
M3Exit ==
    /\ pc = "m3_exit"
    /\ exits' = [ exits EXCEPT !.m3 = m3.status ]
    /\ m3' = M3Idle
    /\ pc' = "idle"
    /\ UNCHANGED << aux, caller, runs, faults, m1, listdir, temp_dir, fs_out,
                    manifest, site, m2 >>

(***************************************************************************)
(* The whole-run specification: the scripts started from the shell, one    *)
(* after the other, against one upstream release.                          *)
(***************************************************************************)
Init ==
    /\ archive \in SitePayloads
    /\ release_listing \in MainListings
    /\ pc = "idle"
    /\ caller = "shell"
    /\ runs = 0
    /\ faults = 0
    /\ m1 = M1Idle
    /\ listdir = << >>
    /\ temp_dir = NoTemp
    /\ fs_out = FreshOut
    /\ manifest = << >>
    /\ exits = NoExits
    /\ site = NoSite
    /\ m2 = M2Idle
    /\ m3 = M3Idle
    /\ harness = HarnessIdle
    /\ resolver = ResolverIdle

Next ==
    \/ M1Start \/ M1Download \/ M1Extract \/ M1Copy \/ M1Manifest
    \/ M1Except \/ M1Exit
    \/ M2Start \/ M2Structure \/ M2Assets \/ M2AssetsReturn \/ M2Config
    \/ M2Gemfile \/ M2CustomCss \/ M2Layout \/ M2Index \/ M2Readme
    \/ M2Except \/ M2Exit
    \/ M3Start \/ M3Detect \/ M3StartPage \/ M3QuestionPage
    \/ M3ComponentsPage \/ M3Except \/ M3Exit

Spec == Init /\ [][Next]_vars

(***************************************************************************)
(* Module 1 alone, run again and again on one output directory, against    *)
(* every archive of the bounds.                                            *)
(***************************************************************************)
InitModule1 ==
    /\ archive \in Payloads(MainTops, MainFileNames, MainFiles)
    /\ release_listing \in MainListings
    /\ pc = "idle"
    /\ caller = "shell"
    /\ runs = 0
    /\ faults = 0
    /\ m1 = M1Idle
    /\ listdir = << >>
    /\ temp_dir = NoTemp
    /\ fs_out = FreshOut
    /\ manifest = << >>
    /\ exits = NoExits
    /\ site = NoSite
    /\ m2 = M2Idle
    /\ m3 = M3Idle
    /\ harness = HarnessIdle
    /\ resolver = ResolverIdle

NextModule1 ==
    \/ M1Start \/ M1Download \/ M1Extract \/ M1Copy \/ M1Manifest
    \/ M1Except \/ M1Exit

SpecModule1 == InitModule1 /\ [][NextModule1]_vars

(***************************************************************************)
(* copy_assets called on its own, more than once, on one extracted tree    *)
(* and one output directory.                                               *)
(***************************************************************************)
\* An output directory in which an earlier release left a style sheet.
StaleOut ==
    [ FreshOut EXCEPT !["css"] =
        [ exists |-> TRUE,
          files |-> ("a.min.css" :> << "v4.0.0", "", "a.min.css" >>) ] ]

InitCopy ==
    /\ \E tree \in Trees(FileNames, MaxFiles) :
         /\ archive = [ valid |-> TRUE, tops |-> RootOnly, tree |-> tree ]
         /\ temp_dir = extractall(WithZip(NewTemp, archive))
    /\ release_listing \in { r \in MainListings : r.exc # "" }
    /\ pc = "copy_assets"
    /\ caller = "shell"
    /\ runs = 0
    /\ faults = 0
    /\ m1 = [ M1Idle EXCEPT !.version = DEFAULT_VERSION, !.extracted_dir = ROOT_DIR ]
    /\ listdir = << >>
    /\ fs_out \in { FreshOut, StaleOut }
    /\ manifest = << >>
    /\ exits = NoExits
    /\ site = NoSite
    /\ m2 = M2Idle
    /\ m3 = M3Idle
    /\ harness = HarnessIdle
    /\ resolver = ResolverIdle

\* copied_files = copy_assets(extracted_dir, args.output_dir)
CopyAssetsCall ==
    /\ pc = "copy_assets"
    /\ harness.calls < MaxCalls
    /\ LET tree == ExtractedTree(temp_dir, m1.extracted_dir) IN
         \E fault \in 0..Len(tree) :
           LET r == copy_assets(tree, m1.version, fs_out, fault) IN
             /\ fault # 0 => r.raised
             /\ fs_out' = r.out
             /\ m1' = IF r.raised THEN m1 ELSE [ m1 EXCEPT !.copied_files = r.lists ]
             /\ harness' = [ calls |-> harness.calls + 1,
                             completed |-> harness.completed + (IF r.raised THEN 0 ELSE 1),
                             raised |-> r.raised,
                             visits |-> IF r.raised THEN << >> ELSE r.visits ]
    /\ UNCHANGED << archive, release_listing, resolver, pc, caller, runs,
                    faults, listdir, temp_dir, manifest, exits, site, m2, m3 >>

SpecCopy == InitCopy /\ [][CopyAssetsCall]_vars

(***************************************************************************)
(* extract_zip called on its own, on every archive layout and every order  *)
(* os.listdir may give.                                                    *)
(***************************************************************************)
InitExtract ==
    /\ archive \in Payloads(TopEntries, {}, 0)
    /\ temp_dir = WithZip(NewTemp, archive)
    /\ release_listing \in { r \in MainListings : r.exc # "" }
    /\ pc = "extract_zip"
    /\ caller = "shell"
    /\ runs = 0
    /\ faults = 0
    /\ m1 = [ M1Idle EXCEPT !.version = DEFAULT_VERSION ]
    /\ listdir = << >>
    /\ fs_out = FreshOut
    /\ manifest = << >>
    /\ exits = NoExits
    /\ site = NoSite
    /\ m2 = M2Idle
    /\ m3 = M3Idle
    /\ harness = HarnessIdle
    /\ resolver = ResolverIdle

\* extracted_dir = extract_zip(zip_path, temp_dir)
ExtractZipCall ==
    /\ pc = "extract_zip"
    /\ \E listing \in Listings(AfterExtraction(temp_dir).entries) :
         LET r == extract_zip(temp_dir, listing) IN
           /\ temp_dir' = r.temp
           /\ listdir' = IF temp_dir.zip[1].valid THEN listing ELSE << >>
           /\ m1' = [ m1 EXCEPT !.extracted_dir = r.extracted_dir,
                                !.error = [ msg |-> r.error, code |-> 0 ] ]
           /\ harness' = [ calls |-> 1, completed |-> IF r.raised THEN 0 ELSE 1,
                           raised |-> r.raised, visits |-> << >> ]
    /\ pc' = "returned"
    /\ UNCHANGED << archive, release_listing, resolver, caller, runs, faults,
                    fs_out, manifest, exits, site, m2, m3 >>

SpecExtract == InitExtract /\ [][ExtractZipCall]_vars

(***************************************************************************)
(* get_latest_version called on its own, on every answer of the endpoint.  *)
(***************************************************************************)
InitResolver ==
    /\ archive = PartialZip
    /\ release_listing \in { r \in MainListings : r.exc # "" }
    /\ pc = "idle"
    /\ caller = "shell"
    /\ runs = 0
    /\ faults = 0
    /\ m1 = M1Idle
    /\ listdir = << >>
    /\ temp_dir = NoTemp
    /\ fs_out = FreshOut
    /\ manifest = << >>
    /\ exits = NoExits
    /\ site = NoSite
    /\ m2 = M2Idle
    /\ m3 = M3Idle
    /\ harness = HarnessIdle
    /\ resolver = [ ResolverIdle EXCEPT !.pc = "request" ]

\* response = requests.get(".../releases/latest")
ResolverRequest ==
    /\ resolver.pc = "request"
    /\ \E resp \in Responses :
         resolver' = [ resolver EXCEPT !.pc = "respond", !.response = resp ]
    /\ UNCHANGED << archive, release_listing, pc, caller, runs, faults, m1,
                    listdir, temp_dir, fs_out, manifest, exits, site, m2, m3,
                    harness >>

\* The rest of get_latest_version: it returns, or an exception leaves it.
ResolverReturn ==
    /\ resolver.pc = "respond"
    /\ resolver' = [ resolver EXCEPT !.pc = "done",
                                     !.result = get_latest_version(resolver.response) ]
    /\ UNCHANGED << archive, release_listing, pc, caller, runs, faults, m1,
                    listdir, temp_dir, fs_out, manifest, exits, site, m2, m3,
                    harness >>

NextResolver == ResolverRequest \/ ResolverReturn

SpecResolver == InitResolver /\ [][NextResolver]_vars

(***************************************************************************)
(* Properties                                                              *)
(***************************************************************************)
Range(seq) == { seq[i] : i \in 1..Len(seq) }

\* The extracted tree copy_assets is given.
TheTree == ExtractedTree(temp_dir, m1.extracted_dir)

\* The classification of the file names, name by name, as the specification
\* tabulates it.
ExpectedNames ==
    [ css    |-> { "a.min.css" },
      js     |-> { "b.min.js" },
      fonts  |-> { "c.woff", "c.woff2" },
      images |-> { "d.png", "e.svg", "f.ico" } ]

\* copy_assets has been called and its last call returned.
CopyReturned ==
    pc = "copy_assets" /\ harness.calls >= 1 /\ ~harness.raised

\* C1: after copy_assets, a file of the tree is among the paths copied into
\* a category directory, and in that directory, exactly when its name has a
\* suffix of that category; a file with no such suffix is copied nowhere and
\* no file is copied into two categories.
C1_Classification ==
    CopyReturned =>
      \A i \in 1..Len(TheTree) :
        LET name == TheTree[i].name IN
          /\ \A c \in CategorySet :
               /\ (<< c, name >> \in Range(m1.copied_files[c]))
                    <=> (name \in ExpectedNames[c])
               /\ (name \in DOMAIN fs_out[c].files)
                    <=> (name \in ExpectedNames[c])
          /\ Cardinality({ c \in CategorySet :
                             << c, name >> \in Range(m1.copied_files[c]) }) <= 1

\* A style sheet was copied and a plain script beside it was not.
C1_Witness ==
    /\ CopyReturned
    /\ \E i, j \in 1..Len(TheTree) :
         TheTree[i].name = "a.min.css" /\ TheTree[j].name = "a.js"
    /\ m1.copied_files["css"] = << << "css", "a.min.css" >> >>
    /\ m1.copied_files["js"] = << >>

\* The last place of tree t where a file is called name.
LastIndex(t, name) ==
    CHOOSE i \in 1..Len(t) :
      /\ t[i].name = name
      /\ \A j \in 1..Len(t) : t[j].name = name => j <= i

\* Two files of tree t, at different paths, share a name of category c.
Collide(t, c) ==
    \E i, j \in 1..Len(t) :
      i < j /\ t[i].name = t[j].name /\ t[i].name \in ExpectedNames[c]

\* C7: when files at different paths share a basename that matches a
\* category, the category directory holds one file of that name, with the
\* content of the source visited last, and no other file for them.
C7_LastWins ==
    CopyReturned =>
      LET t == TheTree IN
        \A c \in CategorySet :
          Collide(t, c) =>
            /\ \A i \in 1..Len(t) :
                 t[i].name \in ExpectedNames[c] =>
                   /\ t[i].name \in DOMAIN fs_out[c].files
                   /\ fs_out[c].files[t[i].name]
                        = << m1.version, t[LastIndex(t, t[i].name)].dir, t[i].name >>
            /\ DOMAIN fs_out[c].files
                 = { t[i].name : i \in 1..Len(t) } \cap ExpectedNames[c]

\* Two style sheets of one name were copied over a stale one.
C7_Witness ==
    /\ CopyReturned
    /\ Collide(TheTree, "css")
    /\ Len(m1.copied_files["css"]) = 2
    /\ fs_out["css"].files["a.min.css"] = << DEFAULT_VERSION, "dist", "a.min.css" >>

\* C8: a call of copy_assets that returns, after one that returned, on the
\* same tree and output directory leaves every category directory as it was:
\* the same names, the same contents.
C8_Idempotent ==
    [][ ( /\ harness.calls >= 1 /\ ~harness.raised
          /\ harness'.calls = harness.calls + 1 /\ ~harness'.raised )
          => fs_out' = fs_out ]_vars

\* The second call returned and there was something to copy.
C8_Witness ==
    /\ pc = "copy_assets"
    /\ harness.completed >= 2
    /\ Len(m1.copied_files["css"]) = 2
    /\ m1.copied_files["images"] = << >>

\* The immediate children of the directory that are directories.
ChildDirs == { e \in temp_dir.entries : e.isdir }

\* C10: for an archive the decoder reads, extract_zip fails, with the
\* extraction error, exactly when after the extraction the directory has no
\* immediate child that is a directory; otherwise it returns the first child
\* directory of the listing, never the archive file beside it.
C10_FirstDirectory ==
    pc = "returned" =>
      /\ archive.valid => (harness.raised <=> (ChildDirs = {}))
      /\ (m1.error.msg = "Failed to extract GOV.UK Frontend")
           <=> (archive.valid /\ ChildDirs = {})
      /\ ChildDirs # {} =>
           /\ m1.extracted_dir # "govuk-frontend.zip"
           /\ \E k \in 1..Len(listdir) :
                /\ listdir[k].isdir
                /\ listdir[k].name = m1.extracted_dir
                /\ \A j \in 1..(k - 1) : ~listdir[j].isdir

\* The archive file and a plain file are listed before two directories, and
\* the first of these is returned.
C10_Witness ==
    /\ pc = "returned"
    /\ Len(listdir) = 4
    /\ listdir[1].name = "govuk-frontend.zip"
    /\ ~listdir[2].isdir
    /\ listdir[3].name = "zz-docs"
    /\ m1.extracted_dir = "zz-docs"

\* C5: get_latest_version never raises; it returns the tag of a 200 response
\* that carries one, and the default version for every other status and for
\* every exception (no connection, no JSON, no object, no field).
C5_NeverPropagates ==
    resolver.pc = "done" =>
      /\ ~resolver.result.raised
      /\ IF /\ resolver.response.exc = ""
            /\ resolver.response.status_code = 200
            /\ resolver.response.body.kind = "release"
         THEN resolver.result.value = resolver.response.body.tag_name
         ELSE resolver.result.value = "v5.10.2"

\* The endpoint was unreachable and the default came back.
C5_Witness ==
    /\ resolver.pc = "done"
    /\ resolver.response.exc = "ConnectionError"
    /\ resolver.result = [ raised |-> FALSE, value |-> "v5.10.2" ]

\* The archive endpoint answered the running module 1 with a status other
\* than 200.
NotOk == pc \in M1Pcs /\ m1.status_code \notin { 0, 200 }

\* C2: once the archive request is answered with a status other than 200,
\* the run is in its handler or at its exit with an error that carries the
\* status, no archive file is in the temporary directory, the output
\* directory and the manifest stay as they are, and when the run ends the
\* temporary directory is gone and the status is 1.
C2_NonOkAborts ==
    [][ NotOk =>
          /\ pc \in { "m1_except", "m1_exit" }
          /\ m1.error = [ msg |-> "Failed to download GOV.UK Frontend: HTTP",
                          code |-> m1.status_code ]
          /\ temp_dir.zip = << >> /\ temp_dir.entries = {}
          /\ fs_out' = fs_out /\ manifest' = manifest
          /\ pc' \notin { "m1_extract", "m1_copy", "m1_manifest" }
          /\ pc' \notin M1Pcs => (temp_dir' = NoTemp /\ exits'.m1 = 1)
      ]_vars

\* A run about to end after a 404.
C2_Witness ==
    /\ pc = "m1_exit"
    /\ m1.status_code = 404
    /\ m1.status = 1
    /\ m1.printed =
         << [ kind |-> "Error", msg |-> "Failed to download GOV.UK Frontend: HTTP",
              code |-> 404 ] >>

\* C3: whenever no module 1 runs, its temporary directory does not exist:
\* it is removed when the run leaves the with block, whatever step failed.
C3_TempRemoved ==
    pc \notin M1Pcs => temp_dir = NoTemp

\* A run ended with status 1 after its manifest write failed, the copies
\* before it made.
C3_Witness ==
    /\ pc = "idle"
    /\ exits.m1 = 1
    /\ manifest = << TruncatedFile >>
    /\ "a.min.css" \in DOMAIN fs_out["css"].files
    /\ temp_dir = NoTemp

\* What the release listing names as the latest release, if it answers.
ListedTag ==
    IF /\ release_listing.exc = ""
       /\ release_listing.status_code = 200
       /\ release_listing.body.kind = "release"
    THEN << release_listing.body.tag_name >>
    ELSE << >>

\* The archive request of the running module 1 has been made.
Requested == pc \in M1Pcs /\ m1.zip_url # ""

\* C6 as stated: the archive asked for is that of --version when given, else
\* that of the tag the release listing reports, and of the default only when
\* the listing fails.
C6_AsStated ==
    Requested =>
      m1.zip_url = ZipUrl(IF m1.cli_version # << >> THEN m1.cli_version[1]
                          ELSE IF ListedTag # << >> THEN ListedTag[1]
                          ELSE "v5.10.2")

\* C6 amended: the archive asked for is that of --version when given, and
\* that of the default version otherwise, whatever the release listing
\* would report.
C6_DefaultWithoutQuery ==
    Requested =>
      m1.zip_url = "https://github.com/alphagov/govuk-frontend/archive/"
                   \o (IF m1.cli_version # << >> THEN m1.cli_version[1] ELSE "v5.10.2")
                   \o ".zip"

\* No --version, a release listing that reports a newer release, and the
\* default asked for.
C6_Witness ==
    /\ pc = "m1_extract"
    /\ m1.cli_version = << >>
    /\ ListedTag = << "v5.11.0" >>
    /\ m1.zip_url = "https://github.com/alphagov/govuk-frontend/archive/v5.10.2.zip"

\* C9: when a run of module 1 ends with status 0, the manifest is the record
\* of this run and nothing else: its version is the run's version and its
\* three lists are empty, however many files were copied and whatever the
\* manifest held before.
C9_Manifest ==
    (pc = "m1_exit" /\ m1.status = 0) =>
      /\ Len(manifest) = 1
      /\ DOMAIN manifest[1] = { "version", "download_date", "files" }
      /\ manifest[1].version = m1.version
      /\ manifest[1].files = [ css |-> << >>, js |-> << >>, assets |-> << >> ]

\* A second run, of another version than the first, that copied two files.
C9_Witness ==
    /\ pc = "m1_exit"
    /\ m1.status = 0
    /\ runs = 2
    /\ m1.version = "v5.11.0"
    /\ Len(m1.copied_files["css"]) = 2
    /\ manifest[1].version = "v5.11.0"

\* The lines of the given kind among the printed ones.
Printed(r, kind) == { i \in 1..Len(r.printed) : r.printed[i].kind = kind }

\* How the run of record r, all of whose steps ran when completed holds, may
\* end: with 0 after all steps ran and none raised, the closing line printed
\* and no error line; with 1 otherwise, the error line of what was raised
\* printed last.
EndsRight(r, success, completed) ==
    /\ r.status \in { 0, 1 }
    /\ r.status = 0 <=> (completed /\ r.error = NoError)
    /\ r.status = 0 =>
         /\ Printed(r, "Error") = {}
         /\ r.printed[Len(r.printed)] = [ kind |-> "Info", msg |-> success, code |-> 0 ]
    /\ r.error # NoError =>
         /\ r.status = 1
         /\ r.printed[Len(r.printed)] =
              [ kind |-> "Error", msg |-> r.error.msg, code |-> r.error.code ]

\* C4: the step that ends a module's run ends it with exit code 0 exactly
\* when all its steps ran and none raised, and with exit code 1, the error
\* line printed, when a step of its try block raised; there is no other code.
C4_ExitCodes ==
    [][ /\ pc = "m1_exit" =>
             /\ EndsRight(m1, "Asset download and extraction complete!",
                          manifest # << >> /\ manifest # << TruncatedFile >>)
             /\ exits'.m1 = m1.status
        /\ pc = "m2_exit" =>
             /\ EndsRight(m2, "Jekyll structure has been created",
                          { "_config.yml", "Gemfile", "assets/css/custom.css",
                            "_layouts/govuk-default.html", "index.md", "README.md" }
                            \subseteq DOMAIN site.files)
             /\ exits'.m2 = m2.status
        /\ pc = "m3_exit" =>
             /\ EndsRight(m3, "Sample pages have been created",
                          /\ m3.site_dir = "site" /\ site.exists
                          /\ { "start-page.md", "question-page.md", "components.md" }
                               \subseteq DOMAIN site.files)
             /\ exits'.m3 = m3.status
      ]_vars

\* Module 2 has ended with 0 and module 3 after it with 1, a write of its
\* try block having raised.
C4_Witness ==
    /\ pc = "idle"
    /\ exits.m2 = 0
    /\ exits.m3 = 1
    /\ faults = 1
    /\ "start-page.md" \in DOMAIN site.files

\* The warnings module 2 has printed in its run.
Warned == { m2.printed[i].msg : i \in Printed(m2, "Warning") }

\* The six files module 2 writes, as a self-hosted run for site_name writes
\* them.
SelfHostedFiles(site_name) ==
    [ f \in { "_config.yml", "Gemfile", "assets/css/custom.css",
              "_layouts/govuk-default.html", "index.md", "README.md" } |->
        CASE f = "_config.yml" -> << "title: " \o site_name >>
          [] f = "Gemfile" -> << "gem jekyll" >>
          [] f = "assets/css/custom.css" -> << "/* Custom styles */" >>
          [] f = "_layouts/govuk-default.html" -> LayoutContent(FALSE)
          [] f = "index.md" -> << "layout: govuk-default" >>
          [] f = "README.md" -> << "GOV.UK Frontend version: v5.10.2",
                                   "Asset mode: self-hosted" >> ]

\* C11: in self-hosted mode, a module 1 that ends non-zero, or is missing,
\* costs module 2 a warning and nothing else: the run goes on to the config
\* file, no error is set, and unless a write of its own raises it ends with
\* status 0 and the six files written.
C11_WarningOnly ==
    [][ /\ (pc = "m2_assets_return" /\ exits.m1 # 0) =>
             /\ pc' = "m2_config"
             /\ m2'.error = NoError
             /\ m2'.printed = Append(m2.printed,
                                     [ kind |-> "Warning", msg |-> "Failed to download assets",
                                       code |-> exits.m1 ])
        /\ (pc = "m2_assets" /\ pc' \notin M1Pcs) =>
             /\ pc' = "m2_config"
             /\ m2'.error = NoError
             /\ "module1_download_assets.py not found" \in
                  { m2'.printed[i].msg : i \in 1..Len(m2'.printed) }
        /\ (pc = "m2_exit" /\ Warned # {} /\ m2.error = NoError) =>
             /\ ~m2.cdn
             /\ m2.status = 0
             /\ exits'.m2 = 0
             /\ Printed(m2, "Error") = {}
             /\ \A f \in DOMAIN SelfHostedFiles(m2.site_name) :
                  /\ f \in DOMAIN site.files
                  /\ site.files[f] = SelfHostedFiles(m2.site_name)[f]
      ]_vars

\* Module 1 ended with 1 under module 2, which warned and is about to end
\* with 0, the layout written.
C11_Witness ==
    /\ pc = "m2_exit"
    /\ exits.m1 = 1
    /\ Warned = { "Failed to download assets" }
    /\ m2.status = 0
    /\ "_layouts/govuk-default.html" \in DOMAIN site.files

\* The lines of a layout that name the style sheet, the icons and the script.
AssetLines(content) == { content[i] : i \in { 2, 4, 5, 6, 8 } }

\* The fixed addresses of the style sheet, the icons and the script on the
\* content delivery network.
CdnUrls ==
    { "https://cdn.jsdelivr.net/npm/govuk-frontend@5.10.2/dist/govuk-frontend-5.10.2.min.css",
      "https://cdn.jsdelivr.net/npm/govuk-frontend@5.10.2/dist/assets/images/favicon.ico",
      "https://cdn.jsdelivr.net/npm/govuk-frontend@5.10.2/dist/assets/images/govuk-icon-mask.svg",
      "https://cdn.jsdelivr.net/npm/govuk-frontend@5.10.2/dist/assets/images/govuk-icon-180.png",
      "https://cdn.jsdelivr.net/npm/govuk-frontend@5.10.2/dist/govuk-frontend-5.10.2.min.js" }

\* The same five as paths relative to the site.
LocalPaths ==
    { "{{ '/assets/css/govuk-frontend-5.10.2.min.css' | relative_url }}",
      "{{ '/assets/images/favicon.ico' | relative_url }}",
      "{{ '/assets/images/govuk-icon-mask.svg' | relative_url }}",
      "{{ '/assets/images/govuk-icon-180.png' | relative_url }}",
      "{{ '/assets/js/govuk-frontend-5.10.2.min.js' | relative_url }}" }

\* The running module 2 has written its layout.
LayoutWritten ==
    \/ pc \in { "m2_index", "m2_readme" }
    \/ pc = "m2_exit" /\ m2.status = 0

\* C12: the layout a run of module 2 has written names the style sheet, the
\* icons and the script by their fixed CDN addresses when --cdn is set and
\* by local relative paths when it is not, never a mix; and module 1 runs
\* under module 2 only when the flag is not set.
C12_LayoutFollowsFlag ==
    /\ LayoutWritten =>
         AssetLines(site.files["_layouts/govuk-default.html"])
           = (IF m2.cdn THEN CdnUrls ELSE LocalPaths)
    /\ (pc = "m2_assets" \/ caller = "m2") => ~m2.cdn

\* A second run of module 2, with --cdn, has written the CDN layout over the
\* local one of a first run, under which module 1 ran.
C12_Witness ==
    /\ pc = "m2_exit"
    /\ runs = 2
    /\ m2.cdn
    /\ m2.status = 0
    /\ exits.m1 # -1
    /\ AssetLines(site.files["_layouts/govuk-default.html"]) = CdnUrls

\* The mode module 3 has detected in its run, once it has.
Detected == pc \in { "m3_start_page", "m3_question_page", "m3_components_page" }

\* C13: the mode module 3 detects is the mode module 2 wrote the layout in:
\* right after module 2 writes the layout, detection on the site gives CDN
\* for --cdn and self-hosted without it, whatever the site name; and what
\* module 3 has detected is unknown exactly when the site has no layout,
\* CDN exactly when the layout is the one of --cdn.
C13_DetectionAgrees ==
    [][ /\ (pc = "m2_layout" /\ pc' = "m2_index") =>
             /\ detect_asset_mode(site') = (IF m2.cdn THEN "CDN" ELSE "self-hosted")
             /\ AssetLines(site'.files["_layouts/govuk-default.html"])
                  = (IF m2.cdn THEN CdnUrls ELSE LocalPaths)
        /\ Detected =>
             /\ m3.asset_mode \in { "CDN", "self-hosted", "unknown" }
             /\ m3.asset_mode = "unknown"
                  <=> "_layouts/govuk-default.html" \notin DOMAIN site.files
             /\ m3.asset_mode = "CDN" =>
                  AssetLines(site.files["_layouts/govuk-default.html"]) = CdnUrls
             /\ m3.asset_mode = "self-hosted" =>
                  AssetLines(site.files["_layouts/govuk-default.html"]) = LocalPaths
      ]_vars

\* Module 3 has detected self-hosted on the site that module 2 made, without
\* --cdn, for a site named as the CDN host.
C13_Witness ==
    /\ pc = "m3_start_page"
    /\ m3.asset_mode = "self-hosted"
    /\ site.files["_config.yml"] = << "title: cdn.jsdelivr.net" >>
    /\ exits.m2 = 0

\* What a step of module 1 does to the files: the archive file appears or
\* changes, the temporary directory gets extracted entries, a category
\* directory changes, the manifest changes.
DownloadEffect == temp_dir'.exists /\ temp_dir'.zip # temp_dir.zip
ExtractEffect ==
    /\ temp_dir'.exists
    /\ \/ temp_dir'.tree # temp_dir.tree
       \/ { e \in temp_dir'.entries : e.isdir } # { e \in temp_dir.entries : e.isdir }
CopyEffect == fs_out' # fs_out
ManifestEffect == manifest' # manifest

\* Every file of the extracted tree that belongs to a category is in its
\* directory, with the content of this run's version.
AllCopied ==
    LET t == TheTree IN
      \A i \in 1..Len(t) : \A c \in CategorySet :
        t[i].name \in ExpectedNames[c] =>
          /\ t[i].name \in DOMAIN fs_out[c].files
          /\ fs_out[c].files[t[i].name]
               = << m1.version, t[LastIndex(t, t[i].name)].dir, t[i].name >>

\* C14: in a run of module 1 the archive is written first, into an empty
\* temporary directory; entries are extracted only from a completely
\* downloaded archive; a category directory changes only after the
\* extraction; the manifest changes only after every copy is made; and once
\* a step has failed, none of the four happens any more.
C14_StepOrder ==
    [][ /\ DownloadEffect =>
             /\ temp_dir = [ exists |-> TRUE, zip |-> << >>, entries |-> {}, tree |-> << >> ]
             /\ m1.extracted_dir = "" /\ m1.error = NoError
        /\ ExtractEffect =>
             /\ m1.status_code = 200 /\ temp_dir.zip = << archive >>
             /\ temp_dir.tree = << >>
             /\ m1.extracted_dir = "" /\ m1.error = NoError
        /\ CopyEffect =>
             /\ m1.extracted_dir \in { e.name : e \in { d \in temp_dir.entries : d.isdir } }
             /\ temp_dir.tree = archive.tree
             /\ m1.copied_files = [ css |-> << >>, js |-> << >>, fonts |-> << >>,
                                    images |-> << >> ]
             /\ m1.error = NoError
             /\ manifest' = manifest
        /\ ManifestEffect =>
             /\ m1.extracted_dir # ""
             /\ AllCopied
             /\ fs_out' = fs_out
             /\ m1.error = NoError
        /\ (pc \in M1Pcs /\ m1.error # NoError) =>
             ~DownloadEffect /\ ~ExtractEffect /\ ~CopyEffect /\ ~ManifestEffect
      ]_vars

\* A run that did all four: the tree extracted, two style sheets copied, the
\* manifest written, about to end with 0.
C14_Witness ==
    /\ pc = "m1_exit"
    /\ m1.status = 0
    /\ Len(temp_dir.tree) = 2
    /\ Len(m1.copied_files["css"]) = 2
    /\ Len(manifest) = 1 /\ manifest[1].version = m1.version

\* The files of tree t that belong to category c, in the order of t.
OfCategory(t, c) ==
    LET Belongs(f) == f.name \in ExpectedNames[c] IN SelectSeq(t, Belongs)

\* The destination paths of the files of t that belong to c, in the order
\* of t: the category directory joined with the basename.
ExpectedList(t, c) ==
    [ i \in 1..Len(OfCategory(t, c)) |-> << c, OfCategory(t, c)[i].name >> ]

\* C15: what copy_assets returns for a category is the destination path of
\* every file of the tree that matches it, one entry per source in
\* traversal order, repeated where sources share a basename, and the empty
\* sequence where none matches; a tree with no matching file at all never
\* makes the call fail.
C15_ReturnedLists ==
    (pc = "copy_assets" /\ harness.calls >= 1) =>
      LET t == TheTree IN
        /\ ~harness.raised =>
             /\ DOMAIN m1.copied_files = { "css", "js", "fonts", "images" }
             /\ \A c \in { "css", "js", "fonts", "images" } :
                  m1.copied_files[c] = ExpectedList(t, c)
        /\ (\A c \in { "css", "js", "fonts", "images" } : OfCategory(t, c) = << >>) =>
             /\ ~harness.raised
             /\ \A c \in { "css", "js", "fonts", "images" } : m1.copied_files[c] = << >>

\* Two fonts of one name at different paths: the destination is returned
\* twice, and the other three lists are empty.
C15_Witness ==
    /\ CopyReturned
    /\ TheTree = << [ dir |-> "", name |-> "c.woff2" ], [ dir |-> "dist", name |-> "c.woff2" ] >>
    /\ m1.copied_files["fonts"] = << << "fonts", "c.woff2" >>, << "fonts", "c.woff2" >> >>
    /\ m1.copied_files["css"] = << >>
    /\ m1.copied_files["js"] = << >>
    /\ m1.copied_files["images"] = << >>

\* How often the loops of the last call came to file f.
VisitsOf(f) ==
    Cardinality({ k \in 1..Len(harness.visits) : harness.visits[k][2] = f })

\* The four category directories exist.
CategoryDirsExist == \A c \in { "css", "js", "fonts", "images" } : fs_out[c].exists

\* C16 as stated: after a call the four directories exist and the call came
\* to every file of the tree exactly once.
C16_AsStated ==
    CopyReturned =>
      /\ CategoryDirsExist
      /\ \A i \in 1..Len(TheTree) : VisitsOf(TheTree[i]) = 1

\* C16 amended: a call makes the four directories, also when some exist and
\* also when a copy then fails, and walks the tree once for each category in
\* turn: it comes to every file four times, once in each walk, in
\* traversal order.
C16_FourWalks ==
    (pc = "copy_assets" /\ harness.calls >= 1) =>
      LET t == TheTree
          order == << "css", "js", "fonts", "images" >> IN
        /\ CategoryDirsExist
        /\ ~harness.raised =>
             /\ Len(harness.visits) = 4 * Len(t)
             /\ \A k \in 1..4 : \A i \in 1..Len(t) :
                  harness.visits[(k - 1) * Len(t) + i] = << order[k], t[i] >>
             /\ \A i \in 1..Len(t) : VisitsOf(t[i]) = 4

\* A second call, on directories the first made, has walked a tree of two
\* files four times.
C16_Witness ==
    /\ CopyReturned
    /\ harness.completed = 2
    /\ Len(TheTree) = 2
    /\ Len(harness.visits) = 8
    /\ VisitsOf(TheTree[1]) = 4

\* The three pages module 3 writes.
Pages == { "start-page.md", "question-page.md", "components.md" }

\* The site directory module 3 was given is an existing directory.
GivenDirectory == m3.site_dir = "site" /\ site.exists

\* C17: module 3 touches the site only when the directory it was given
\* exists: given anything else it ends with status 1 and the site is as it
\* was, no directory made and no file written; given the directory, a run in
\* which nothing raised ends with status 0 and the three pages written,
\* whatever mode it detected, unknown included.
C17_ExistingDirectoryOnly ==
    [][ /\ (pc \in M3Pcs /\ ~GivenDirectory) =>
             /\ pc = "m3_exit" /\ m3.status = 1 /\ m3.error = NoError
             /\ site' = site
             /\ exits'.m3 = 1
        /\ (pc = "idle" /\ pc' \in M3Pcs) =>
             /\ site' = site
             /\ pc' = "m3_detect" <=> (m3'.site_dir = "site" /\ site.exists)
        /\ (pc \in M3Pcs /\ site' # site) =>
             /\ GivenDirectory
             /\ \E f \in Pages : site'.files = (f :> << "layout: govuk-default" >>) @@ site.files
             /\ site'.exists = site.exists /\ site'.dirs = site.dirs
        /\ (pc = "m3_exit" /\ GivenDirectory /\ m3.error = NoError) =>
             /\ m3.status = 0
             /\ m3.asset_mode \in { "CDN", "self-hosted", "unknown" }
             /\ Pages \subseteq DOMAIN site.files
             /\ exits'.m3 = 0
      ]_vars

\* A run given a directory without a layout, about to end with 0 after the
\* three pages.
C17_Witness ==
    /\ pc = "m3_exit"
    /\ m3.asset_mode = "unknown"
    /\ m3.status = 0
    /\ DOMAIN site.files = Pages

\* The version in the address of the archive the run asked for: what stands
\* between the fixed prefix and ".zip".
UrlPrefix == "https://github.com/alphagov/govuk-frontend/archive/"
UrlVersion(url) == SubSeq(url, Len(UrlPrefix) + 1, Len(url) - 4)

\* C18: a run of module 1 has one version from start to end: it does not
\* change between steps, the archive asked for is that of this version, and
\* the manifest a successful run leaves records the version that stands in
\* the address it downloaded from.
C18_OneVersion ==
    [][ /\ (pc \in M1Pcs /\ pc' \in M1Pcs) => m1'.version = m1.version
        /\ (pc \in M1Pcs /\ m1.zip_url # "") =>
             /\ SubSeq(m1.zip_url, 1, Len(UrlPrefix)) = UrlPrefix
             /\ SubSeq(m1.zip_url, Len(m1.zip_url) - 3, Len(m1.zip_url)) = ".zip"
             /\ UrlVersion(m1.zip_url) = m1.version
        /\ (pc = "m1_exit" /\ m1.status = 0) =>
             manifest[1].version = UrlVersion(m1.zip_url)
      ]_vars

\* A run for --version v5.11.0 about to end with 0: the address and the
\* manifest both name v5.11.0.
C18_Witness ==
    /\ pc = "m1_exit"
    /\ m1.status = 0
    /\ m1.cli_version = << "v5.11.0" >>
    /\ m1.zip_url = "https://github.com/alphagov/govuk-frontend/archive/v5.11.0.zip"
    /\ manifest[1].version = "v5.11.0"

\* The running module 1 has failed and is in its handler or at its exit.
Failed == pc \in { "m1_except", "m1_exit" } /\ m1.error # NoError

\* C19: a run of module 1 leaves the manifest alone until its manifest step,
\* so a run that fails in the download, the extraction or the copy ends with
\* the manifest of the last successful run; it removes no file from a
\* category directory, and after a failure it leaves them as the failed step
\* left them.
C19_NoRollback ==
    [][ /\ (pc \in { "m1_download", "m1_extract", "m1_copy" }) => manifest' = manifest
        /\ Failed =>
             /\ manifest' = manifest
             /\ fs_out' = fs_out
             /\ pc = "m1_exit" => exits'.m1 = 1
        /\ manifest' # manifest =>
             /\ pc = "m1_manifest"
             /\ \/ /\ m1'.status = 0
                   /\ manifest' = << [ version |-> m1.version, download_date |-> "2026-11-06",
                                       files |-> [ css |-> << >>, js |-> << >>,
                                                   assets |-> << >> ] ] >>
                \/ m1'.error # NoError
        /\ pc \in M1Pcs =>
             \A c \in { "css", "js", "fonts", "images" } :
               DOMAIN fs_out[c].files \subseteq DOMAIN fs_out'[c].files
      ]_vars

\* After a successful run of v5.10.2, a run of v5.11.0 failed in its second
\* copy: the style sheet is of v5.11.0, the manifest says v5.10.2.
C19_Witness ==
    /\ pc = "idle"
    /\ runs = 2
    /\ exits.m1 = 1
    /\ Len(manifest) = 1 /\ manifest[1].version = "v5.10.2"
    /\ "a.min.css" \in DOMAIN fs_out["css"].files
    /\ fs_out["css"].files["a.min.css"][1] = "v5.11.0"

\* No asset file is in any category directory.
NothingCopied == \A c \in { "css", "js", "fonts", "images" } : DOMAIN fs_out[c].files = {}

\* C20: what a completed run of module 2 has written as layout and README
\* is decided by --cdn alone: without it the layout names the local paths
\* and the README says self-hosted, whether module 1 ran, succeeded, failed
\* or was missing, and whatever the category directories hold.
C20_FlagAlone ==
    (pc = "m2_exit" /\ m2.status = 0) =>
      /\ AssetLines(site.files["_layouts/govuk-default.html"])
           = (IF m2.cdn THEN CdnUrls ELSE LocalPaths)
      /\ site.files["README.md"]
           = << "GOV.UK Frontend version: v5.10.2",
                IF m2.cdn THEN "Asset mode: CDN" ELSE "Asset mode: self-hosted" >>

\* Without --cdn, module 1 failed under module 2 and no asset was ever
\* copied; the layout names the local style sheet and the README says
\* self-hosted.
C20_Witness ==
    /\ pc = "m2_exit"
    /\ m2.status = 0
    /\ ~m2.cdn
    /\ exits.m1 = 1
    /\ NothingCopied
    /\ "{{ '/assets/css/govuk-frontend-5.10.2.min.css' | relative_url }}"
         \in AssetLines(site.files["_layouts/govuk-default.html"])
    /\ site.files["README.md"][2] = "Asset mode: self-hosted"
====
